---- MODULE Spec2Model ----
(***************************************************************************)
(* Feature-engineering stage of the ethereum_fraud_detection pipeline:     *)
(* NormalizeFeatureEngineeringStrategy, FeatureEngineeringHandler          *)
(* (src/src/feature_engineering.py), feature_engineering_step              *)
(* (src/steps/feature_engineering_step.py) and the call made by            *)
(* ml_pipeline (src/pipelines/training_pipeline.py).                       *)
(*                                                                         *)
(* A DataFrame is [index |-> row labels, cols |-> <<[name, vals]>>]; a     *)
(* Series is a DataFrame with one column.  A cell is a record              *)
(* [kind, v, fit]: "num" a number v, "str" a value that is not numeric,    *)
(* "nan" a missing value, "pt" the power transform of v fitted on the      *)
(* column fit.  The fitted value is kept symbolic: it is a function of the *)
(* cell and of the whole column it was fitted on, and is never the cell.   *)
(***************************************************************************)
EXTENDS Integers, Sequences, FiniteSets, TLC

VARIABLES _strategy, assigned, input, last, remembered, between

vars == <<_strategy, assigned, input, last, remembered, between>>

\* ------------------------------------------------------------------ bounds
MaxRows == 2
MaxIndexLabel == 2

\* ------------------------------------------------------------------- cells
Num(v) == [kind |-> "num", v |-> v, fit |-> <<>>]
Str == [kind |-> "str", v |-> 0, fit |-> <<>>]
NaN == [kind |-> "nan", v |-> 0, fit |-> <<>>]
Transformed(column, v) == [kind |-> "pt", v |-> v, fit |-> column]

\* --------------------------------------------------------- pandas helpers
EmptyFrame == [index |-> <<>>, cols |-> <<>>]
ColumnNames(df) == [j \in 1..Len(df.cols) |-> df.cols[j].name]
ColumnSet(df) == {df.cols[j].name : j \in 1..Len(df.cols)}
NRows(df) == Len(df.index)
RangeIndex(n) == [i \in 1..n |-> i - 1]
Labels(idx) == {idx[i] : i \in 1..Len(idx)}

\* df[target_column]: the column as a Series, KeyError when it is absent
GetItemAttr(df, target_column) ==
    LET IsTarget(c) == c.name = target_column
    IN IF target_column \notin ColumnSet(df)
       THEN [raised |-> <<"AttributeError">>, value |-> EmptyFrame]
       ELSE [raised |-> <<>>,
             value |-> [index |-> df.index, cols |-> SelectSeq(df.cols, IsTarget)]]

GetItem(df, target_column) ==
    LET IsTarget(c) == c.name = target_column
    IN IF target_column \notin ColumnSet(df)
       THEN [raised |-> <<"KeyError">>, value |-> EmptyFrame]
       ELSE [raised |-> <<>>,
             value |-> [index |-> df.index, cols |-> SelectSeq(df.cols, IsTarget)]]

\* df.drop(columns=[target_column]): a new frame; self is the receiver after
\* the call
DropInplace(df, target_column) ==
    LET IsOther(c) == c.name # target_column
        X == [index |-> df.index, cols |-> SelectSeq(df.cols, IsOther)]
    IN IF target_column \notin ColumnSet(df)
       THEN [raised |-> <<"KeyError">>, value |-> EmptyFrame, self |-> df]
       ELSE [raised |-> <<>>, value |-> X, self |-> X]

Drop(df, target_column) ==
    LET IsOther(c) == c.name # target_column
    IN IF target_column \notin ColumnSet(df)
       THEN [raised |-> <<"KeyError">>, value |-> EmptyFrame, self |-> df]
       ELSE [raised |-> <<>>,
             value |-> [index |-> df.index, cols |-> SelectSeq(df.cols, IsOther)],
             self |-> df]

\* y.reset_index(drop=True): same values, labels 0..n-1
ResetIndexNone(y) == y

ResetIndexKeep(y) ==
    [index |-> RangeIndex(NRows(y)),
     cols |-> <<[name |-> "index", vals |-> [i \in 1..NRows(y) |-> Num(y.index[i])]]>>
              \o y.cols]

ResetIndex(y) == [index |-> RangeIndex(NRows(y)), cols |-> y.cols]

\* pd.DataFrame(X_norm, columns=X.columns): labels 0..n-1
DataFrame(matrix, columns) ==
    [index |-> RangeIndex(IF matrix = <<>> THEN 0 ELSE Len(matrix[1])),
     cols |-> [j \in 1..Len(columns) |-> [name |-> columns[j], vals |-> matrix[j]]]]

RECURSIVE NewLabels(_, _)
NewLabels(idx, seen) ==
    IF idx = <<>> THEN <<>>
    ELSE (IF Head(idx) \in seen THEN <<>> ELSE <<Head(idx)>>)
         \o NewLabels(Tail(idx), seen \cup {Head(idx)})

Reindex(df, idx) ==
    LET At(col, l) == IF l \in Labels(df.index)
                      THEN col.vals[CHOOSE i \in 1..Len(df.index) : df.index[i] = l]
                      ELSE NaN
    IN [index |-> idx,
        cols |-> [j \in 1..Len(df.cols) |->
                    [name |-> df.cols[j].name,
                     vals |-> [i \in 1..Len(idx) |-> At(df.cols[j], idx[i])]]]]

\* pd.concat([a, b], axis=1): columns side by side, rows aligned on the
\* index labels (outer join)
ConcatAxis0(a, b) ==
    LET Pad(cols, before, after) ==
            [j \in 1..Len(cols) |->
                [name |-> cols[j].name,
                 vals |-> [i \in 1..before |-> NaN] \o cols[j].vals
                          \o [i \in 1..after |-> NaN]]]
    IN [index |-> a.index \o b.index,
        cols |-> Pad(a.cols, 0, NRows(b)) \o Pad(b.cols, NRows(a), 0)]

Concat(a, b) ==
    IF a.index = b.index
    THEN [index |-> a.index, cols |-> a.cols \o b.cols]
    ELSE LET idx == a.index \o NewLabels(b.index, Labels(a.index))
         IN [index |-> idx, cols |-> Reindex(a, idx).cols \o Reindex(b, idx).cols]

\* PowerTransformer().fit_transform(X): a fresh transformer is fitted on
\* each column of X and applied to that same column
Values(vals) == [i \in 1..Len(vals) |-> vals[i].v]

\* a transformer kept from the previous successful call would reuse its fit
FitColumnStale(vals) ==
    IF last.returned # <<>>
    THEN last.returned[1].cols[1].vals[1].fit
    ELSE Values(vals)

FitColumn(vals) == Values(vals)
Numeric(X) == \A j \in 1..Len(X.cols) : \A i \in 1..NRows(X) : X.cols[j].vals[i].kind = "num"

PowerTransformer_fit_transform(X) ==
    IF Len(X.cols) = 0 \/ NRows(X) = 0 \/ ~Numeric(X)
    THEN [raised |-> <<"ValueError">>, matrix |-> <<>>]
    ELSE [raised |-> <<>>,
          matrix |-> [j \in 1..Len(X.cols) |->
                        [i \in 1..NRows(X) |->
                            Transformed(FitColumn(X.cols[j].vals), X.cols[j].vals[i].v)]]]

\* ------------------------------------------------------------- the strategy
\* NormalizeFeatureEngineeringStrategy.__init__
NormalizeFeatureEngineeringStrategy(features) == [features |-> features]

\* NormalizeFeatureEngineeringStrategy.apply_transformation.  The result is
\* what the call returns or raises, with the argument object (df) and the
\* strategy object (self) as they are after the call.
Normalize_apply_transformation(self, df, target_column) ==
    LET y == GetItem(df, target_column)
    IN IF y.raised # <<>>
       THEN [returned |-> <<>>, raised |-> y.raised, df |-> df, self |-> self]
       ELSE
       LET X == Drop(df, target_column)
       IN IF X.raised # <<>>
          THEN [returned |-> <<>>, raised |-> X.raised, df |-> X.self, self |-> self]
          ELSE
          LET X_norm == PowerTransformer_fit_transform(X.value)
          IN IF X_norm.raised # <<>>
             THEN [returned |-> <<>>, raised |-> X_norm.raised,
                   df |-> X.self, self |-> self]
             ELSE
             LET X_norm_df == DataFrame(X_norm.matrix, ColumnNames(X.value))
                 transformed_df == Concat(X_norm_df, ResetIndex(y.value))
             IN [returned |-> <<transformed_df>>, raised |-> <<>>,
                 df |-> X.self, self |-> self]

\* -------------------------------------------------------------- the handler
\* FeatureEngineeringHandler.__init__: the value of self._strategy
FeatureEngineeringHandler(strategy) == strategy

\* FeatureEngineeringHandler.strategy (setter): the new value of self._strategy
Handler_strategy_setter_ignore(current, strategy) == current

Handler_strategy_setter(current, strategy) == strategy

\* FeatureEngineeringHandler.apply_transformation: served is the strategy
\* whose method ran, _strategy the handler's field after the call
Handler_apply_transformation_fixed_target(current, df, target_column) ==
    LET r == Normalize_apply_transformation(current, df, "FLAG")
    IN [returned |-> r.returned, raised |-> r.raised, df |-> r.df,
        served |-> current, _strategy |-> r.self]

Handler_apply_transformation(current, df, target_column) ==
    LET r == Normalize_apply_transformation(current, df, target_column)
    IN [returned |-> r.returned, raised |-> r.raised, df |-> r.df,
        served |-> current, _strategy |-> r.self]

\* ----------------------------------------------------- the step, the pipeline
\* feature_engineering_step(df, target_column, features)
feature_engineering_step_swallow(df, target_column, features) ==
    LET r == Handler_apply_transformation(
                 FeatureEngineeringHandler(NormalizeFeatureEngineeringStrategy(features)),
                 df, target_column)
    IN IF r.raised # <<>>
       THEN [r EXCEPT !.returned = <<r.df>>, !.raised = <<>>]
       ELSE r

feature_engineering_step(df, target_column, features) ==
    Handler_apply_transformation(
        FeatureEngineeringHandler(NormalizeFeatureEngineeringStrategy(features)),
        df, target_column)

\* default of the features parameter of feature_engineering_step
DefaultFeatures == <<>>

\* ml_pipeline: the feature engineering step on the cleaned frame
ml_pipeline_feature_engineering(feature_cleaned_df) ==
    feature_engineering_step(feature_cleaned_df, "flag", DefaultFeatures)

\* ------------------------------------------------------------------ inputs
\* column layouts: features A, B (as in the specification's scenario) and a
\* label named as feature_cleaning_step ("FLAG") or feature_engineering_step
\* ("flag") is told by ml_pipeline
Layouts ==
    { <<"A", "B", "FLAG">>, <<"FLAG", "A">>, <<"A", "flag">>, <<"A", "B">>, <<"FLAG">> }

Domain(name) ==
    CASE name = "A" -> {Num(1), Str}
      [] name = "B" -> {Num(1), Num(2)}
      [] OTHER -> {Num(0), Num(1)}

RECURSIVE ColumnSeqs(_, _)
ColumnSeqs(layout, n) ==
    IF layout = <<>> THEN {<<>>}
    ELSE { <<[name |-> Head(layout), vals |-> v]>> \o rest :
             v \in [1..n -> Domain(Head(layout))],
             rest \in ColumnSeqs(Tail(layout), n) }

\* row labels left by dropping rows of a 0..MaxIndexLabel range
RowIndexes(n) ==
    { idx \in [1..n -> 0..MaxIndexLabel] : \A i \in 1..(n - 1) : idx[i] < idx[i + 1] }

Datasets ==
    UNION { { [index |-> idx, cols |-> cols] :
                idx \in RowIndexes(n), cols \in ColumnSeqs(layout, n) } :
            layout \in Layouts, n \in 0..MaxRows }

Col(name, vals) == [name |-> name, vals |-> vals]

\* frames used where two calls are compared
SampleFrames ==
    { [index |-> <<0, 1>>,
       cols |-> <<Col("A", <<Num(1), Num(2)>>), Col("B", <<Num(2), Num(2)>>),
                  Col("FLAG", <<Num(0), Num(1)>>)>>],
      [index |-> <<1, 3>>,
       cols |-> <<Col("A", <<Num(2), Num(1)>>), Col("B", <<Num(1), Num(2)>>),
                  Col("FLAG", <<Num(1), Num(0)>>)>>],
      [index |-> <<2>>,
       cols |-> <<Col("flag", <<Num(1)>>), Col("A", <<Num(3)>>)>>],
      [index |-> <<0, 1>>,
       cols |-> <<Col("A", <<Str, Num(1)>>), Col("FLAG", <<Num(1), Num(1)>>)>>],
      [index |-> <<0>>,
       cols |-> <<Col("A", <<Num(1)>>), Col("B", <<Num(2)>>)>>] }

Targets == {"FLAG", "flag"}

FeatureLists == { <<>>, <<"A">> }

Strategies == { NormalizeFeatureEngineeringStrategy(f) : f \in FeatureLists }

\* ----------------------------------------------------------------- records
NoCall ==
    [via |-> "none", df |-> EmptyFrame, target_column |-> "",
     strategy |-> NormalizeFeatureEngineeringStrategy(<<>>),
     returned |-> <<>>, raised |-> <<>>,
     served |-> NormalizeFeatureEngineeringStrategy(<<>>),
     strategy_after |-> NormalizeFeatureEngineeringStrategy(<<>>)]

\* between: a call on a frame other than the remembered call's was made since
OtherFrameSince(df) == between \/ (remembered.via # "none" /\ df # remembered.df)

\* ----------------------------------------------------------------- actions
\* handler.strategy = s
SetStrategy(s) ==
    /\ _strategy' = Handler_strategy_setter(_strategy, s)
    /\ assigned' = s
    /\ UNCHANGED <<input, last, remembered, between>>

\* strategy.apply_transformation(df, target_column) on a strategy object
StrategyCall(s, df, target_column) ==
    LET r == Normalize_apply_transformation(s, df, target_column)
    IN /\ last' = [via |-> "strategy", df |-> df, target_column |-> target_column,
                   strategy |-> s, returned |-> r.returned, raised |-> r.raised,
                   served |-> s, strategy_after |-> r.self]
       /\ input' = r.df
       /\ between' = OtherFrameSince(df)
       /\ UNCHANGED <<_strategy, assigned, remembered>>

\* handler.apply_transformation(df, target_column)
HandlerCall(df, target_column) ==
    LET r == Handler_apply_transformation(_strategy, df, target_column)
    IN /\ last' = [via |-> "handler", df |-> df, target_column |-> target_column,
                   strategy |-> _strategy, returned |-> r.returned, raised |-> r.raised,
                   served |-> r.served, strategy_after |-> r._strategy]
       /\ _strategy' = r._strategy
       /\ input' = r.df
       /\ between' = OtherFrameSince(df)
       /\ UNCHANGED <<assigned, remembered>>

\* feature_engineering_step(df, target_column, features): a handler of its own
StepCall(df, target_column, features) ==
    LET r == feature_engineering_step(df, target_column, features)
    IN /\ last' = [via |-> "step", df |-> df, target_column |-> target_column,
                   strategy |-> NormalizeFeatureEngineeringStrategy(features),
                   returned |-> r.returned, raised |-> r.raised,
                   served |-> r.served, strategy_after |-> r._strategy]
       /\ input' = r.df
       /\ between' = OtherFrameSince(df)
       /\ UNCHANGED <<_strategy, assigned, remembered>>

\* ml_pipeline reaching its feature engineering step
PipelineCall(df) ==
    LET r == ml_pipeline_feature_engineering(df)
    IN /\ last' = [via |-> "pipeline", df |-> df, target_column |-> "flag",
                   strategy |-> NormalizeFeatureEngineeringStrategy(DefaultFeatures),
                   returned |-> r.returned, raised |-> r.raised,
                   served |-> r.served, strategy_after |-> r._strategy]
       /\ input' = r.df
       /\ between' = OtherFrameSince(df)
       /\ UNCHANGED <<_strategy, assigned, remembered>>

\* the caller gets another frame from the upstream step
Load(df) ==
    /\ input' = df
    /\ UNCHANGED <<_strategy, assigned, last, remembered, between>>

\* an observer keeps the last call to compare a later one with it
Remember ==
    /\ last.via # "none"
    /\ remembered # last
    /\ remembered' = last
    /\ between' = FALSE
    /\ UNCHANGED <<_strategy, assigned, input, last>>

\* ---------------------------------------------------------- specifications
\* a handler used over time, on the sample frames
Init ==
    /\ \E s \in Strategies :
          /\ _strategy = FeatureEngineeringHandler(s)
          /\ assigned = s
    /\ input \in SampleFrames
    /\ last = NoCall
    /\ remembered = NoCall
    /\ between = FALSE

Next ==
    \/ \E s \in Strategies : SetStrategy(s)
    \/ \E t \in Targets : HandlerCall(input, t)
    \/ \E t \in Targets, f \in FeatureLists : StepCall(input, t, f)
    \/ \E df \in SampleFrames : Load(df)
    \/ Remember

Spec == Init /\ [][Next]_vars

\* one call on each frame of the bounded input space
InitInputs ==
    /\ \E s \in Strategies :
          /\ _strategy = FeatureEngineeringHandler(s)
          /\ assigned = s
    /\ input \in Datasets
    /\ last = NoCall
    /\ remembered = NoCall
    /\ between = FALSE

NextInputs ==
    \/ \E s \in Strategies, t \in Targets : StrategyCall(s, input, t)
    \/ \E t \in Targets : HandlerCall(input, t)
    \/ \E t \in Targets, f \in FeatureLists : StepCall(input, t, f)
    \/ PipelineCall(input)

SpecInputs == InitInputs /\ [][NextInputs]_vars

\* ------------------------------------------------------------------ claims
Called == last.via # "none"
Returned == last.returned # <<>>
Out == last.returned[1]
ColumnOf(df, name) == df.cols[CHOOSE j \in 1..Len(df.cols) : df.cols[j].name = name]
IsTransformed(col) == \A i \in 1..Len(col.vals) : col.vals[i].kind = "pt"
SameRequest(a, b) ==
    /\ a.df = b.df
    /\ a.target_column = b.target_column
    /\ a.strategy = b.strategy

\* the inputs on which the code cannot produce a frame: no label column, no
\* feature column, no row, or a feature cell that is not a number
MissingTarget(df, target_column) == target_column \notin ColumnSet(df)
CannotFit(df, target_column) ==
    \/ ColumnSet(df) \ {target_column} = {}
    \/ NRows(df) = 0
    \/ \E j \in 1..Len(df.cols) :
          /\ df.cols[j].name # target_column
          /\ \E i \in 1..NRows(df) : df.cols[j].vals[i].kind # "num"

\* C1: whenever a call returns a frame, that frame holds at every row
\* position the label value the input holds at that position, whatever the
\* input's row labels.
C1_LabelPreservation ==
    Returned =>
        /\ last.target_column \in ColumnSet(Out)
        /\ Len(ColumnOf(Out, last.target_column).vals) = NRows(last.df)
        /\ \A i \in 1..NRows(last.df) :
              ColumnOf(Out, last.target_column).vals[i]
                  = ColumnOf(last.df, last.target_column).vals[i]

C1_Witness ==
    /\ Returned
    /\ NRows(last.df) = 2
    /\ last.df.index # RangeIndex(2)
    /\ ColumnOf(last.df, last.target_column).vals[1]
           # ColumnOf(last.df, last.target_column).vals[2]

\* C2: a frame returned by a strategy configured with a non-empty features
\* list has exactly the listed columns transformed.
C2_ConfiguredFeaturesOnly ==
    (Returned /\ last.strategy.features # <<>>) =>
        \A j \in 1..Len(Out.cols) :
            Out.cols[j].name # last.target_column =>
                (IsTransformed(Out.cols[j])
                    <=> Out.cols[j].name \in Labels(last.strategy.features))

\* C3 as stated: a call whose target column is absent raises
\* MissingColumnError and returns nothing.
C3_MissingColumnError ==
    (Called /\ MissingTarget(last.df, last.target_column)) =>
        /\ last.raised = <<"MissingColumnError">>
        /\ last.returned = <<>>

\* C3 as amended: a call whose target column is absent raises KeyError and
\* returns nothing, on the strategy, through the handler, the step and the
\* pipeline.
C3_MissingTargetKeyError ==
    (Called /\ MissingTarget(last.df, last.target_column)) =>
        /\ last.raised = <<"KeyError">>
        /\ last.returned = <<>>

C3_Witness ==
    /\ last.via = "pipeline"
    /\ "FLAG" \in ColumnSet(last.df)
    /\ MissingTarget(last.df, last.target_column)
    /\ last.raised # <<>>

\* C4: the handler always holds one strategy, the one most recently assigned
\* (or the constructor's); every handler call is served by that strategy and
\* its result is the result of that strategy on the call's arguments.
C4_StrategySubstitutable ==
    /\ [](_strategy \in Strategies /\ _strategy = assigned)
    /\ [][(last' # last /\ last'.via = "handler") =>
            /\ last'.served = assigned
            /\ last'.returned =
                 Normalize_apply_transformation(assigned, last'.df,
                                                last'.target_column).returned
            /\ last'.raised =
                 Normalize_apply_transformation(assigned, last'.df,
                                                last'.target_column).raised]_vars

C4_Witness ==
    /\ remembered.via = "handler"
    /\ last.via = "handler"
    /\ remembered.served # last.served
    /\ last.served = assigned
    /\ Returned

\* C5: a handler call returns or raises what its current strategy returns or
\* raises for the same two arguments, and leaves the handler's strategy as
\* it was.
C5_VerbatimDelegation ==
    last.via = "handler" =>
        LET r == Normalize_apply_transformation(last.strategy, last.df, last.target_column)
        IN /\ last.returned = r.returned
           /\ last.raised = r.raised
           /\ last.served = last.strategy
           /\ last.strategy_after = last.strategy

C5_Witness ==
    /\ last.via = "handler"
    /\ last.target_column = "flag"
    /\ Returned
    /\ _strategy = last.strategy

\* C6: whenever a call returns a frame, the frame has as many rows as the
\* input, in its index and in every column.
C6_RowCount ==
    Returned =>
        /\ NRows(Out) = NRows(last.df)
        /\ \A j \in 1..Len(Out.cols) : Len(Out.cols[j].vals) = NRows(last.df)

C6_Witness ==
    /\ Returned
    /\ NRows(last.df) = MaxRows
    /\ last.df.index # RangeIndex(MaxRows)
    /\ last.via = "step"

\* C7: whenever a call returns a frame, its columns are the input's columns:
\* the features in their order, then the label; none added, dropped, renamed.
C7_ColumnSet ==
    Returned =>
        /\ ColumnSet(Out) = ColumnSet(last.df)
        /\ Len(Out.cols) = Len(last.df.cols)
        /\ ColumnNames(Out) =
             ColumnNames(Drop(last.df, last.target_column).value)
                \o <<last.target_column>>

C7_Witness ==
    /\ Returned
    /\ last.df.cols[1].name = last.target_column
    /\ Out.cols[1].name # last.target_column

C9_InputImmutable ==
    Called =>
        /\ input = last.df
        /\ last.strategy_after = last.strategy
        /\ Returned => Out # last.df

C9_Witness ==
    /\ last.via = "strategy"
    /\ last.raised = <<"ValueError">>
    /\ Len(last.df.cols) > 1
    /\ input = last.df

\* C10: a call on an input the code cannot transform raises (KeyError for
\* an absent target, ValueError from the fit) at every level, returns no
\* frame, and leaves the strategy in place; a call raises or returns, never
\* both.
C10_AllOrNothing ==
    Called =>
        /\ (last.raised = <<>>) # (last.returned = <<>>)
        /\ MissingTarget(last.df, last.target_column) =>
              (last.raised = <<"KeyError">> /\ last.returned = <<>>)
        /\ (~MissingTarget(last.df, last.target_column)
              /\ CannotFit(last.df, last.target_column)) =>
              (last.raised = <<"ValueError">> /\ last.returned = <<>>)
        /\ last.raised # <<>> => last.strategy_after = last.strategy

C10_Witness ==
    /\ last.via = "step"
    /\ last.raised = <<"ValueError">>
    /\ last.returned = <<>>
    /\ NRows(last.df) > 0

====
